---- MODULE Spec2Model ----
(***************************************************************************)
(* GastoSmart recommendation engine: RecommendationOperations               *)
(* (database/recommendation_operation.py) and the /recommendations router.  *)
(*                                                                          *)
(* Numbers: amounts are whole currency units (integers); a score is held in *)
(* hundredths (1.0 -> 100, 0.98 -> 98, 0.04 -> 4).                          *)
(* Python values of unknown kind (a field of a Mongo document, a metadata   *)
(* entry) are tagged records [k, s, n]: k is the kind ("null", "str",       *)
(* "num", "list"), s the text of a str, n the value of a num.               *)
(***************************************************************************)
EXTENDS Integers, Sequences, FiniteSets, TLC

VARIABLES
    transactions,    \* the transactions collection: a sequence of raw documents
    user_settings,   \* the user_settings collection: user_id -> document (or absent)
    goals,           \* the goals collection: a sequence of goal documents
    ops,             \* the RecommendationOperations instance: which handles it holds
    call,            \* the last call made: its entry point and its inputs
    result,          \* what RecommendationOperations returned (or that it raised)
    response,        \* what the HTTP endpoint returned to its caller
    applied          \* history: per user, confirmed goal-creation calls that returned success

vars == <<transactions, user_settings, goals, ops, call, result, response, applied>>

(***************************************************************************)
(* Bounds of the model.                                                     *)
(***************************************************************************)
MaxTx == 3        \* longest transaction list drawn for a generation run
MaxApply == 2     \* most documents the apply flow may add to one store
MaxCats == 6      \* most expense categories in a generation run over categories
MaxSmall == 4     \* most expenses in a generation run over small expenses

Users == {"u1", "u2"}

(***************************************************************************)
(* Python values.                                                           *)
(***************************************************************************)
Null == [k |-> "null", s |-> "", n |-> 0]
Str(x) == [k |-> "str", s |-> x, n |-> 0]
Num(x) == [k |-> "num", s |-> "", n |-> x]
Lst == [k |-> "list", s |-> "", n |-> 0]      \* a non-empty list: truthy, unhashable

\* bool(v): None, "" and 0 are falsy
Truthy(v) == \/ v.k = "str" /\ v.s # ""
             \/ v.k = "num" /\ v.n # 0
             \/ v.k = "list"

\* x or y
Or(x, y) == IF Truthy(x) THEN x ELSE y

\* str.lower() over the texts of the model
Lower(s) ==
    CASE s = "Ingreso" -> "ingreso"
      [] s = "INCOME" -> "income"
      [] s = "Gasto" -> "gasto"
      [] s = "EXPENSE" -> "expense"
      [] s = "Netflix" -> "netflix"
      [] s = " Netflix " -> " netflix "
      [] s = "NETFLIX" -> "netflix"
      [] s = "Salario" -> "salario"
      [] OTHER -> s

\* str.strip() over the texts of the model
Strip(s) ==
    CASE s = " Netflix " -> "Netflix"
      [] s = " netflix " -> "netflix"
      [] s = " " -> ""
      [] s = " 5000 " -> "5000"
      [] OTHER -> s

\* str.replace(",", "") over the texts of the model
RemoveCommas(s) ==
    CASE s = "20,000" -> "20000"
      [] s = "1,5" -> "15"
      [] OTHER -> s

\* float(text): [ok, n]; ok is FALSE where float() raises ValueError
FloatOfText(s) ==
    CASE s = "5000" -> [ok |-> TRUE, n |-> 5000]
      [] s = " 5000 " -> [ok |-> TRUE, n |-> 5000]
      [] s = "20000" -> [ok |-> TRUE, n |-> 20000]
      [] s = "15" -> [ok |-> TRUE, n |-> 15]
      [] s = "50000" -> [ok |-> TRUE, n |-> 50000]
      [] OTHER -> [ok |-> FALSE, n |-> 0]

\* float(v): raises for None, a list, and a text that is not a number
FloatOf(v) ==
    CASE v.k = "num" -> [ok |-> TRUE, n |-> v.n]
      [] v.k = "str" -> FloatOfText(v.s)
      [] OTHER -> [ok |-> FALSE, n |-> 0]

\* str(v), as an f-string renders a value
NumText(n) ==
    CASE n = 0 -> "0"
      [] n = 1 -> "1"
      [] n = 7 -> "7"
      [] OTHER -> "n"

Format(v) ==
    CASE v.k = "str" -> v.s
      [] v.k = "num" -> NumText(v.n)
      [] v.k = "null" -> "None"
      [] OTHER -> "[...]"

\* round(a / b) for b > 0: Python rounds a tie to the even neighbour
RoundHalfEven(a, b) ==
    LET q == a \div b
        r == a % b
    IN  IF 2 * r < b THEN q
        ELSE IF 2 * r > b THEN q + 1
        ELSE IF q % 2 = 0 THEN q ELSE q + 1

(***************************************************************************)
(* Program constants.                                                       *)
(***************************************************************************)
SmallExpenseThreshold == 20000    \* amt <= 20000 counts as a small expense
DefaultGoalAmount == 50000        \* goal amount when no income is recorded
TopCategories == 5                \* sorted_cats[:5]
SubscriptionMinCharges == 3       \* len(amounts) >= 3
SmallExpenseMinCount == 3         \* small_expense_count >= 3

IncomeLabels == {"ingreso", "income", "in", "deposit"}
ExpenseLabels == {"gasto", "expense", "out", "withdrawal"}
GoalTypes == {"suggest_goal", "goal_suggestion", "create_goal"}
ActionTypes == {"reduce_category", "monitor_category", "possible_subscription",
                "many_small_expenses"}

(***************************************************************************)
(* Transaction documents and the normalizer.                                *)
(* shape: "none" (None), "dict" (a mapping), "obj" (an object with          *)
(* attributes).  A key that is missing reads as None, so it is held as Null.*)
(***************************************************************************)
Doc(u, ty, amt, cat, m, d) ==
    [shape |-> "dict", user_id |-> u, type |-> ty, amount |-> amt,
     category |-> cat, merchant |-> m, description |-> d]

NoneDoc(u) ==
    [shape |-> "none", user_id |-> u, type |-> Null, amount |-> Null,
     category |-> Null, merchant |-> Null, description |-> Null]

\* _normalize_transaction: None -> {}, a dict -> itself, an object -> a dict of its attributes
normalize_transaction(t) ==
    IF t.shape = "none"
    THEN [NoneDoc(t.user_id) EXCEPT !.shape = "dict"]
    ELSE [t EXCEPT !.shape = "dict"]

\* (t.get("type") or "").lower() raises AttributeError when the value is truthy and no text
type_raises(t) == Truthy(t.type) /\ t.type.k # "str"

type_text(t) == IF Truthy(t.type) THEN Lower(t.type.s) ELSE ""

is_income(t) == type_text(t) \in IncomeLabels

is_expense(t) == type_text(t) \in ExpenseLabels

\* _parse_amount: float(amt), else float(str(amt).replace(",", "").strip()), else 0.0
parse_amount(t) ==
    LET amt == Or(t.amount, Num(0))
        direct == FloatOf(amt)
        cleaned == IF amt.k = "str" THEN FloatOfText(Strip(RemoveCommas(amt.s)))
                   ELSE [ok |-> FALSE, n |-> 0]
    IN  IF direct.ok THEN direct.n
        ELSE IF cleaned.ok THEN cleaned.n
        ELSE 0

(***************************************************************************)
(* Aggregation: the loop of generate_recommendations over the transactions. *)
(* by_category and merchant_map are Python dicts: sequences of entries in   *)
(* insertion order.                                                         *)
(***************************************************************************)
Keys(d) == {d[i].key : i \in 1..Len(d)}

IndexOf(d, key) == CHOOSE i \in 1..Len(d) : d[i].key = key

\* by_category[cat] = by_category.get(cat, 0.0) + amt
DictAdd(d, key, amt) ==
    IF key \in Keys(d)
    THEN [d EXCEPT ![IndexOf(d, key)].total = @ + amt]
    ELSE Append(d, [key |-> key, total |-> amt])

\* merchant_map.setdefault(m, []).append(amt)
DictAppend(d, key, amt) ==
    IF key \in Keys(d)
    THEN [d EXCEPT ![IndexOf(d, key)].amounts = Append(@, amt)]
    ELSE Append(d, [key |-> key, amounts |-> <<amt>>])

EmptySignals ==
    [raised |-> FALSE, ingresos |-> 0, gastos |-> 0, by_category |-> <<>>,
     merchant_map |-> <<>>, small_expense_count |-> 0, small_expense_total |-> 0]

\* one iteration of "for raw in transactions"
AggregateOne(acc, raw) ==
    LET t == normalize_transaction(raw)
        amt == parse_amount(t)
        cat == Or(t.category, Str("Sin categoria"))
        mv == Or(t.merchant, Or(t.description, Str("")))
        m == Lower(Strip(mv.s))
        small == amt <= SmallExpenseThreshold
    IN  IF acc.raised THEN acc
        ELSE IF type_raises(t) THEN [acc EXCEPT !.raised = TRUE]
        ELSE IF is_income(t) THEN [acc EXCEPT !.ingresos = @ + amt]
        ELSE IF is_expense(t) THEN
            IF cat.k = "list" \/ mv.k # "str"
            THEN [acc EXCEPT !.raised = TRUE]    \* unhashable key / .strip() on no text
            ELSE [acc EXCEPT
                    !.gastos = @ + amt,
                    !.by_category = DictAdd(@, cat, amt),
                    !.merchant_map = IF m # "" THEN DictAppend(@, m, amt) ELSE @,
                    !.small_expense_count = IF small THEN @ + 1 ELSE @,
                    !.small_expense_total = IF small THEN @ + amt ELSE @]
        ELSE acc

RECURSIVE AggregateFrom(_, _, _)
AggregateFrom(acc, txs, i) ==
    IF i > Len(txs) THEN acc
    ELSE AggregateFrom(AggregateOne(acc, txs[i]), txs, i + 1)

Aggregate(txs) == AggregateFrom(EmptySignals, txs, 1)

RECURSIVE SumSeq(_)
SumSeq(s) == IF s = <<>> THEN 0 ELSE Head(s) + SumSeq(Tail(s))

(***************************************************************************)
(* Recommendation candidates.  A title is [text, arg]: the fixed text and   *)
(* the value rendered into it ("" when the title is fixed); detail is      *)
(* [text, args]: the message and the computed values rendered into it.      *)
(***************************************************************************)
Rec(type, titleText, titleArg, detailText, detailArgs, score, action) ==
    [type |-> type,
     title |-> [text |-> titleText, arg |-> titleArg],
     detail |-> [text |-> detailText, args |-> detailArgs],
     score |-> score,
     suggested_action |-> action]

\* percentage with one decimal (f"{x:.1f}"), held in tenths of a percent
Pct10(part, whole) == RoundHalfEven(1000 * part, whole)

\* variant: the negative balance is tested ahead of the missing income
BalanceRuleNegativeFirst(ingresos, gastos) ==
    LET balance == ingresos - gastos
    IN  IF balance < 0 THEN
            Rec("negative_balance", "Gastas mas de lo que ingresas", "",
                "Tus gastos superan tus ingresos", <<gastos, ingresos>>, 98,
                Str("Revisar presupuesto"))
        ELSE IF ingresos > 0 /\ 100 * balance < 5 * ingresos THEN
            Rec("low_saving_margin", "Margen de ahorro bajo", "",
                "Tu ahorro es % de tus ingresos", <<Pct10(balance, ingresos)>>, 90,
                Str("Crear meta de ahorro"))
        ELSE
            Rec("healthy_balance", "Balance saludable", "",
                "Tu balance es positivo", <<>>, 20, Str("Crear o aumentar meta"))

\* variant: a margin of exactly 5% counts as low
BalanceRuleInclusive(ingresos, gastos) ==
    LET balance == ingresos - gastos
    IN  IF ingresos = 0 /\ gastos > 0 THEN
            Rec("no_income", "No se detectaron ingresos", "",
                "Registra tus ingresos", <<>>, 100, Str("Registrar ingreso"))
        ELSE IF balance < 0 THEN
            Rec("negative_balance", "Gastas mas de lo que ingresas", "",
                "Tus gastos superan tus ingresos", <<gastos, ingresos>>, 98,
                Str("Revisar presupuesto"))
        ELSE IF ingresos > 0 /\ 100 * balance <= 5 * ingresos THEN
            Rec("low_saving_margin", "Margen de ahorro bajo", "",
                "Tu ahorro es % de tus ingresos", <<Pct10(balance, ingresos)>>, 90,
                Str("Crear meta de ahorro"))
        ELSE
            Rec("healthy_balance", "Balance saludable", "",
                "Tu balance es positivo", <<>>, 20, Str("Crear o aumentar meta"))

\* variant: no income is reported whenever income is zero, expenses or not
BalanceRuleNoIncomeOnZero(ingresos, gastos) ==
    LET balance == ingresos - gastos
    IN  IF ingresos = 0 THEN
            Rec("no_income", "No se detectaron ingresos", "",
                "Registra tus ingresos", <<>>, 100, Str("Registrar ingreso"))
        ELSE IF balance < 0 THEN
            Rec("negative_balance", "Gastas mas de lo que ingresas", "",
                "Tus gastos superan tus ingresos", <<gastos, ingresos>>, 98,
                Str("Revisar presupuesto"))
        ELSE IF ingresos > 0 /\ 100 * balance < 5 * ingresos THEN
            Rec("low_saving_margin", "Margen de ahorro bajo", "",
                "Tu ahorro es % de tus ingresos", <<Pct10(balance, ingresos)>>, 90,
                Str("Crear meta de ahorro"))
        ELSE
            Rec("healthy_balance", "Balance saludable", "",
                "Tu balance es positivo", <<>>, 20, Str("Crear o aumentar meta"))

\* 1) balance and income: exactly one branch of the if / elif chain
BalanceRule(ingresos, gastos) ==
    LET balance == ingresos - gastos
    IN  IF ingresos = 0 /\ gastos > 0 THEN
            Rec("no_income", "No se detectaron ingresos", "",
                "Registra tus ingresos", <<>>, 100, Str("Registrar ingreso"))
        ELSE IF balance < 0 THEN
            Rec("negative_balance", "Gastas mas de lo que ingresas", "",
                "Tus gastos superan tus ingresos", <<gastos, ingresos>>, 98,
                Str("Revisar presupuesto"))
        ELSE IF ingresos > 0 /\ 100 * balance < 5 * ingresos THEN
            Rec("low_saving_margin", "Margen de ahorro bajo", "",
                "Tu ahorro es % de tus ingresos", <<Pct10(balance, ingresos)>>, 90,
                Str("Crear meta de ahorro"))
        ELSE
            Rec("healthy_balance", "Balance saludable", "",
                "Tu balance es positivo", <<>>, 20, Str("Crear o aumentar meta"))

\* sorted(by_category.items(), key=lambda x: x[1], reverse=True): stable, descending
RECURSIVE InsertByTotal(_, _, _)
InsertByTotal(sorted, e, i) ==
    IF i > Len(sorted) THEN Append(sorted, e)
    ELSE IF sorted[i].total < e.total
         THEN SubSeq(sorted, 1, i - 1) \o <<e>> \o SubSeq(sorted, i, Len(sorted))
         ELSE InsertByTotal(sorted, e, i + 1)

RECURSIVE SortedCats(_, _)
SortedCats(d, n) ==
    IF n = 0 THEN <<>> ELSE InsertByTotal(SortedCats(d, n - 1), d[n], 1)

FirstN(s, n) == SubSeq(s, 1, IF Len(s) < n THEN Len(s) ELSE n)

\* 2) one candidate per top-5 category holding >= 30% (reduce) or >= 15% (monitor)
CategoryRec(e, total_expense) ==
    IF 100 * e.total >= 30 * total_expense THEN
        <<Rec("reduce_category", "Reduce gastos en ", Format(e.key),
              "Has gastado % en", <<Pct10(e.total, total_expense), e.total>>, 95,
              Str("Revisar gastos en"))>>
    ELSE IF 100 * e.total >= 15 * total_expense THEN
        <<Rec("monitor_category", "Vigila ", Format(e.key),
              "% de tus gastos estan en", <<Pct10(e.total, total_expense)>>, 60,
              Str("Reducir gastos en"))>>
    ELSE <<>>

RECURSIVE CategoryRecs(_, _, _)
CategoryRecs(cats, total_expense, i) ==
    IF i > Len(cats) THEN <<>>
    ELSE CategoryRec(cats[i], total_expense) \o CategoryRecs(cats, total_expense, i + 1)

RECURSIVE SumTotals(_, _)
SumTotals(d, n) == IF n = 0 THEN 0 ELSE d[n].total + SumTotals(d, n - 1)

\* variant: every category is looked at, not the first five
CategoryRuleAllCategories(by_category) ==
    LET total_expense == SumTotals(by_category, Len(by_category))
    IN  IF total_expense > 0
        THEN CategoryRecs(SortedCats(by_category, Len(by_category)), total_expense, 1)
        ELSE <<>>

CategoryRule(by_category) ==
    LET total_expense == SumTotals(by_category, Len(by_category))
    IN  IF total_expense > 0
        THEN CategoryRecs(FirstN(SortedCats(by_category, Len(by_category)), TopCategories),
                          total_expense, 1)
        ELSE <<>>

\* variant: two charges are enough
RECURSIVE SubscriptionRuleTwoCharges(_, _)
SubscriptionRuleTwoCharges(merchant_map, i) ==
    IF i > Len(merchant_map) THEN <<>>
    ELSE LET e == merchant_map[i]
             n == Len(e.amounts)
             one == IF n >= 2
                    THEN <<Rec("possible_subscription", "Revisa posible suscripcion: ", e.key,
                               "cargos frecuentes", <<n, RoundHalfEven(SumSeq(e.amounts), n)>>,
                               85, Str("Revisar suscripcion"))>>
                    ELSE <<>>
         IN  one \o SubscriptionRuleTwoCharges(merchant_map, i + 1)

\* 3) a merchant key with at least 3 charges
RECURSIVE SubscriptionRule(_, _)
SubscriptionRule(merchant_map, i) ==
    IF i > Len(merchant_map) THEN <<>>
    ELSE LET e == merchant_map[i]
             n == Len(e.amounts)
             one == IF n >= SubscriptionMinCharges
                    THEN <<Rec("possible_subscription", "Revisa posible suscripcion: ", e.key,
                               "cargos frecuentes", <<n, RoundHalfEven(SumSeq(e.amounts), n)>>,
                               85, Str("Revisar suscripcion"))>>
                    ELSE <<>>
         IN  one \o SubscriptionRule(merchant_map, i + 1)

\* variant: a sum of exactly 10% of income is enough
SmallExpensesRuleInclusive(sig) ==
    IF /\ sig.ingresos > 0
       /\ sig.small_expense_count >= SmallExpenseMinCount
       /\ 10 * sig.small_expense_total >= sig.ingresos
    THEN <<Rec("many_small_expenses", "Gastos pequenos que suman mucho", "",
               "gastos pequenos que suman", <<sig.small_expense_count, sig.small_expense_total>>,
               80, Str("Consolidar o reducir gastos pequenos"))>>
    ELSE <<>>

\* 4) many small expenses
SmallExpensesRule(sig) ==
    IF /\ sig.ingresos > 0
       /\ sig.small_expense_count >= SmallExpenseMinCount
       /\ 10 * sig.small_expense_total > sig.ingresos
    THEN <<Rec("many_small_expenses", "Gastos pequenos que suman mucho", "",
               "gastos pequenos que suman", <<sig.small_expense_count, sig.small_expense_total>>,
               80, Str("Consolidar o reducir gastos pequenos"))>>
    ELSE <<>>

\* 5) expenses above 70% of income
HighExpenseRule(sig) ==
    IF sig.ingresos > 0 /\ 10 * sig.gastos > 7 * sig.ingresos
    THEN <<Rec("high_expense_ratio", "Gastos muy altos en relacion a ingresos", "",
               "Tus gastos superan el 70% de tus ingresos", <<>>, 90,
               Str("Reducir gastos no esenciales"))>>
    ELSE <<>>

\* 6) the configured limit: skipped when falsy or not convertible by float()
LimitRule(sig, settings) ==
    LET limite_gastos == settings.limite_gastos
        limite_val == FloatOf(limite_gastos)
    IN  IF ~Truthy(limite_gastos) \/ ~limite_val.ok THEN <<>>
        ELSE IF sig.gastos > limite_val.n THEN
            <<Rec("over_limit", "Has superado tu limite de gastos", "",
                  "Tus gastos exceden el limite configurado", <<sig.gastos, limite_val.n>>,
                  92, Str("Revisar limite o reducir gastos"))>>
        ELSE
            <<Rec("within_limit", "Dentro del limite", "",
                  "Estas dentro del limite mensual", <<limite_val.n>>, 25, Null)>>

\* 7) suggested goal when no meta_ahorro is configured
SuggestGoalRule(sig, settings) ==
    IF ~Truthy(settings.meta_ahorro) /\ sig.ingresos > 0
    THEN <<Rec("suggest_goal", "Crea una meta de ahorro", "",
               "Sugerimos una meta inicial de", <<RoundHalfEven(sig.ingresos, 10)>>, 70,
               Str("Crear meta"))>>
    ELSE <<>>

\* variant: the daily tracking tip alone
GeneralTipsDailyOnly ==
    <<Rec("daily_tracking", "Registra tus movimientos", "",
          "Llevar control diario", <<>>, 5, Str("Registrar diariamente"))>>

\* 8) general tips
GeneralTips ==
    <<Rec("daily_tracking", "Registra tus movimientos", "",
          "Llevar control diario", <<>>, 5, Str("Registrar diariamente")),
      Rec("automate_saving", "Ahorro automatico", "",
          "Automatiza un porcentaje", <<>>, 4, Str("Configurar transferencia automatica"))>>

NoDataRec ==
    Rec("no_data", "No hay datos suficientes", "",
        "Registra ingresos y gastos", <<>>, 100, Str("Registrar transacciones"))

\* variant: no_data only when no rule produced a candidate
NoDataRuleWhenNoCandidate(txs, recs) == IF Len(recs) = 0 THEN <<NoDataRec>> ELSE recs

\* recs.insert(0, no_data) when the fetched list is empty
NoDataRule(txs, recs) == IF Len(txs) = 0 THEN <<NoDataRec>> \o recs ELSE recs

\* the candidate list in the order the rules append to it
Candidates(txs, sig, settings) ==
    NoDataRule(txs,
        <<BalanceRule(sig.ingresos, sig.gastos)>>
        \o CategoryRule(sig.by_category)
        \o SubscriptionRule(sig.merchant_map, 1)
        \o SmallExpensesRule(sig)
        \o HighExpenseRule(sig)
        \o LimitRule(sig, settings)
        \o SuggestGoalRule(sig, settings)
        \o GeneralTips)

(***************************************************************************)
(* Ranking: sorted(recs, key=score, reverse=True), then the first of each   *)
(* (type, title).                                                           *)
(***************************************************************************)
RECURSIVE InsertByScore(_, _, _)
InsertByScore(sorted, r, i) ==
    IF i > Len(sorted) THEN Append(sorted, r)
    ELSE IF sorted[i].score < r.score
         THEN SubSeq(sorted, 1, i - 1) \o <<r>> \o SubSeq(sorted, i, Len(sorted))
         ELSE InsertByScore(sorted, r, i + 1)

RECURSIVE SortByScore(_, _)
SortByScore(recs, n) ==
    IF n = 0 THEN <<>> ELSE InsertByScore(SortByScore(recs, n - 1), recs[n], 1)

RecKey(r) == <<r.type, r.title>>

RECURSIVE Dedup(_, _, _)
Dedup(recs, i, seen) ==
    IF i > Len(recs) THEN <<>>
    ELSE IF RecKey(recs[i]) \in seen THEN Dedup(recs, i + 1, seen)
    ELSE <<recs[i]>> \o Dedup(recs, i + 1, seen \union {RecKey(recs[i])})

\* variant: a candidate is placed ahead of the earlier ones of its score
RECURSIVE InsertAheadOfTies(_, _, _)
InsertAheadOfTies(sorted, r, i) ==
    IF i > Len(sorted) THEN Append(sorted, r)
    ELSE IF sorted[i].score <= r.score
         THEN SubSeq(sorted, 1, i - 1) \o <<r>> \o SubSeq(sorted, i, Len(sorted))
         ELSE InsertAheadOfTies(sorted, r, i + 1)

RECURSIVE SortTiesReversed(_, _)
SortTiesReversed(recs, n) ==
    IF n = 0 THEN <<>> ELSE InsertAheadOfTies(SortTiesReversed(recs, n - 1), recs[n], 1)

RankTiesReversed(recs) == Dedup(SortTiesReversed(recs, Len(recs)), 1, {})

\* variant: sorted, every candidate kept
RankKeepDuplicates(recs) == SortByScore(recs, Len(recs))

Rank(recs) == Dedup(SortByScore(recs, Len(recs)), 1, {})

(***************************************************************************)
(* RecommendationOperations.__init__: which handles the instance holds,     *)
(* from the object it is given.  arg.kind is "txops" (a                     *)
(* TransactionOperations), "db" (an object with transactions and            *)
(* user_settings), "coll" (anything else: taken as the transactions         *)
(* collection) or "none"; arg.user_settings / arg.goals say whether that    *)
(* handle can be obtained from it, arg.database whether the collection has  *)
(* a database, arg.settings_arg whether user_settings_collection is passed. *)
(***************************************************************************)
Construct(arg) ==
    LET base ==
          CASE arg.kind = "txops" ->
                 [transaction_ops |-> TRUE, transactions_collection |-> FALSE,
                  database |-> FALSE, user_settings_collection |-> arg.user_settings,
                  goals_collection |-> arg.goals]
            [] arg.kind = "db" ->
                 [transaction_ops |-> FALSE, transactions_collection |-> TRUE,
                  database |-> arg.database, user_settings_collection |-> TRUE,
                  goals_collection |-> arg.goals]
            [] arg.kind = "coll" ->
                 [transaction_ops |-> FALSE, transactions_collection |-> TRUE,
                  database |-> arg.database,
                  user_settings_collection |-> arg.database /\ arg.user_settings,
                  goals_collection |-> arg.database /\ arg.user_settings /\ arg.goals]
            [] OTHER ->
                 [transaction_ops |-> FALSE, transactions_collection |-> FALSE,
                  database |-> FALSE, user_settings_collection |-> FALSE,
                  goals_collection |-> FALSE]
    IN  IF arg.kind # "txops" /\ arg.settings_arg
        THEN [base EXCEPT !.user_settings_collection = TRUE]
        ELSE base

(***************************************************************************)
(* fetch_user_data.  tx_fails / settings_fails: the store read raises.      *)
(***************************************************************************)
DefaultSettings == [meta_ahorro |-> Null, limite_gastos |-> Null]

Absent == [exists |-> FALSE, meta_ahorro |-> Null, limite_gastos |-> Null,
           goals |-> <<>>, recommendation_actions |-> <<>>]

SettingsDoc(meta, limite) ==
    [exists |-> TRUE, meta_ahorro |-> meta, limite_gastos |-> limite,
     goals |-> <<>>, recommendation_actions |-> <<>>]

\* find({"user_id": user_id}): the user's documents in stored order
RECURSIVE FindByUser(_, _)
FindByUser(coll, user_id) ==
    IF coll = <<>> THEN <<>>
    ELSE IF Head(coll).user_id = user_id
         THEN <<Head(coll)>> \o FindByUser(Tail(coll), user_id)
         ELSE FindByUser(Tail(coll), user_id)

FetchTransactions(o, coll, user_id, tx_fails) ==
    IF o.transaction_ops THEN
        IF tx_fails THEN <<>>
        ELSE [i \in 1..Len(FindByUser(coll, user_id)) |->
                 normalize_transaction(FindByUser(coll, user_id)[i])]
    ELSE IF ~o.transactions_collection \/ tx_fails THEN <<>>
    ELSE FindByUser(coll, user_id)

FetchSettings(o, settings_coll, user_id, settings_fails) ==
    IF o.user_settings_collection /\ ~settings_fails /\ settings_coll[user_id].exists
    THEN [meta_ahorro |-> settings_coll[user_id].meta_ahorro,
          limite_gastos |-> settings_coll[user_id].limite_gastos]
    ELSE DefaultSettings

(***************************************************************************)
(* generate_recommendations: [raised, recs].                                *)
(***************************************************************************)
generate_recommendations(o, coll, settings_coll, user_id, tx_fails, settings_fails) ==
    LET txs == FetchTransactions(o, coll, user_id, tx_fails)
        settings == FetchSettings(o, settings_coll, user_id, settings_fails)
        sig == Aggregate(txs)
    IN  IF sig.raised
        THEN [raised |-> TRUE, recs |-> <<>>]
        ELSE [raised |-> FALSE, recs |-> Rank(Candidates(txs, sig, settings))]

(***************************************************************************)
(* apply_recommendation.  A request is [rec_type, metadata, confirm];       *)
(* metadata is None or a mapping, held as [present, amount, name].          *)
(* Timestamps (created_at, applied_at) are not part of the documents here.  *)
(***************************************************************************)
Request(rec_type, present, amount, confirm) ==
    [rec_type |-> rec_type,
     metadata |-> [present |-> present, amount |-> amount, name |-> Null],
     confirm |-> confirm]

\* sum(self._parse_amount(t) for t in transactions if self._is_income(t)):
\* [raised, total]; t.get raises on None, _is_income on a type that is no text
RECURSIVE IncomeOf(_)
IncomeOf(txs) ==
    IF txs = <<>> THEN [raised |-> FALSE, total |-> 0]
    ELSE LET t == Head(txs)
             rest == IncomeOf(Tail(txs))
         IN  IF t.shape = "none" \/ type_raises(t) \/ rest.raised
             THEN [raised |-> TRUE, total |-> 0]
             ELSE [raised |-> FALSE,
                   total |-> rest.total + (IF is_income(t) THEN parse_amount(t) ELSE 0)]

\* variant: no default amount when there is no income
GoalAmountNoDefault(ingresos) == RoundHalfEven(ingresos, 10)

\* amount = int(round(ingresos * 0.10)) if ingresos > 0 else 50000
GoalAmount(ingresos) ==
    IF ingresos > 0 THEN RoundHalfEven(ingresos, 10) ELSE DefaultGoalAmount

GoalDoc(user_id, name, target_amount) ==
    [user_id |-> user_id, name |-> name, target_amount |-> target_amount,
     current_amount |-> 0, meta_type |-> "savings", source |-> "recommendation"]

\* update_one({"user_id": u}, {"$push": {field: doc}}, upsert=True)
PushGoal(settings_coll, u, doc) ==
    [settings_coll EXCEPT ![u].exists = TRUE, ![u].goals = Append(@, doc)]

\* variant: the entry is pushed twice
PushActionTwice(settings_coll, u, note) ==
    [settings_coll EXCEPT ![u].exists = TRUE,
                          ![u].recommendation_actions = Append(Append(@, note), note)]

PushAction(settings_coll, u, note) ==
    [settings_coll EXCEPT ![u].exists = TRUE, ![u].recommendation_actions = Append(@, note)]

\* variant: an equal goal document is not inserted again
InsertGoalUnique(goals_coll, doc) ==
    IF \E i \in 1..Len(goals_coll) : goals_coll[i] = doc
    THEN goals_coll
    ELSE Append(goals_coll, doc)

\* goals_collection.insert_one(goal_doc)
InsertGoal(goals_coll, doc) == Append(goals_coll, doc)

\* variant: the goals collection is never looked up through the database
ResolveGoalsNever(o) == o

\* goals_collection is None: take it from transactions_collection.database
ResolveGoals(o) ==
    IF ~o.goals_collection /\ o.transactions_collection /\ o.database
    THEN [o EXCEPT !.goals_collection = TRUE]
    ELSE o

Outcome(o, settings_coll, goals_coll, wrote, success, detail) ==
    [ops |-> o, user_settings |-> settings_coll, goals |-> goals_coll,
     wrote |-> wrote, success |-> success, detail |-> detail]

\* variant: when the insert into goals raises, the goal is pushed to the preferences
CreateGoalFallbackOnError(o, coll, settings_coll, goals_coll, user_id, req, tx_fails, write_fails) ==
    LET given == IF req.metadata.present THEN req.metadata.amount ELSE Null
        income == IncomeOf(FetchTransactions(o, coll, user_id, tx_fails))
        amount == IF given.k = "null" THEN Num(GoalAmount(income.total)) ELSE given
        target == FloatOf(amount)
        resolved == ResolveGoals(o)
        doc == GoalDoc(user_id, Str("Ahorro sugerido"), target.n)
        failed == Outcome(resolved, settings_coll, goals_coll, "none", FALSE,
                          "Error al crear la meta.")
    IN  IF (given.k = "null" /\ income.raised) \/ ~target.ok THEN failed
        ELSE IF resolved.goals_collection /\ ~write_fails
             THEN Outcome(resolved, settings_coll, InsertGoal(goals_coll, doc),
                          "goals", TRUE, "Meta creada con id")
        ELSE IF resolved.user_settings_collection
             THEN Outcome(resolved, PushGoal(settings_coll, user_id, doc), goals_coll,
                          "settings_goals", TRUE, "Meta anadida a user_settings.goals")
        ELSE failed

\* the goal-creation branch (rec_type in suggest_goal, goal_suggestion, create_goal)
CreateGoal(o, coll, settings_coll, goals_coll, user_id, req, tx_fails, write_fails) ==
    LET given == IF req.metadata.present THEN req.metadata.amount ELSE Null
        name == IF req.metadata.present
                THEN Or(req.metadata.name, Str("Ahorro sugerido"))
                ELSE Str("Ahorro sugerido")
        income == IncomeOf(FetchTransactions(o, coll, user_id, tx_fails))
        amount == IF given.k = "null" THEN Num(GoalAmount(income.total)) ELSE given
        target == FloatOf(amount)
        resolved == ResolveGoals(o)
        doc == GoalDoc(user_id, name, target.n)
        failed == Outcome(o, settings_coll, goals_coll, "none", FALSE,
                          "Error al crear la meta.")
    IN  IF given.k = "null" /\ income.raised THEN failed
        ELSE IF ~target.ok THEN failed
        ELSE IF ~resolved.goals_collection THEN
            IF resolved.user_settings_collection THEN
                IF write_fails
                THEN [failed EXCEPT !.ops = resolved]
                ELSE Outcome(resolved, PushGoal(settings_coll, user_id, doc), goals_coll,
                             "settings_goals", TRUE, "Meta anadida a user_settings.goals")
            ELSE Outcome(resolved, settings_coll, goals_coll, "none", FALSE,
                         "No hay coleccion goals ni user_settings disponible.")
        ELSE IF write_fails
             THEN [failed EXCEPT !.ops = resolved]
             ELSE Outcome(resolved, settings_coll, InsertGoal(goals_coll, doc),
                          "goals", TRUE, "Meta creada con id")

\* the action-log branch (reduce_category, monitor_category, possible_subscription,
\* many_small_expenses)
LogAction(o, settings_coll, goals_coll, user_id, req, write_fails) ==
    LET note == [rec_type |-> req.rec_type, metadata |-> req.metadata]
    IN  IF o.user_settings_collection THEN
            IF write_fails
            THEN Outcome(o, settings_coll, goals_coll, "none", FALSE,
                         "Error al registrar la accion.")
            ELSE Outcome(o, PushAction(settings_coll, user_id, note), goals_coll,
                         "actions", TRUE, "Accion registrada en user_settings")
        ELSE Outcome(o, settings_coll, goals_coll, "none", FALSE,
                     "No hay user_settings para registrar la accion.")

\* the store operations one call of apply_recommendation issues, in order:
\* [op, kind ("read" / "write"), ok]; ok is FALSE where the operation raises
StoreOp(op, kind, ok) == [op |-> op, kind |-> kind, ok |-> ok]

\* fetch_user_data: the transaction read, then the preferences read
FetchOps(o, tx_fails) ==
    (IF o.transaction_ops THEN <<StoreOp("get_user_transactions", "read", ~tx_fails)>>
     ELSE IF o.transactions_collection THEN <<StoreOp("transactions.find", "read", ~tx_fails)>>
     ELSE <<>>)
    \o (IF o.user_settings_collection
        THEN <<StoreOp("user_settings.find_one", "read", TRUE)>>
        ELSE <<>>)

StoreCalls(o, coll, user_id, req, tx_fails, write_fails) ==
    LET given == IF req.metadata.present THEN req.metadata.amount ELSE Null
        reads == IF given.k = "null" THEN FetchOps(o, tx_fails) ELSE <<>>
        income == IncomeOf(FetchTransactions(o, coll, user_id, tx_fails))
        amount == IF given.k = "null" THEN Num(GoalAmount(income.total)) ELSE given
        resolved == ResolveGoals(o)
    IN  IF ~req.confirm THEN <<>>
        ELSE IF req.rec_type \in GoalTypes THEN
            IF (given.k = "null" /\ income.raised) \/ ~FloatOf(amount).ok THEN reads
            ELSE IF resolved.goals_collection
                 THEN reads \o <<StoreOp("goals.insert_one", "write", ~write_fails)>>
            ELSE IF resolved.user_settings_collection
                 THEN reads \o <<StoreOp("user_settings.update_one", "write", ~write_fails)>>
            ELSE reads
        ELSE IF req.rec_type \in ActionTypes /\ o.user_settings_collection
             THEN <<StoreOp("user_settings.update_one", "write", ~write_fails)>>
        ELSE <<>>

\* variant: the confirm flag is not looked at
apply_recommendationUnconfirmed(o, coll, settings_coll, goals_coll, user_id, req, tx_fails, write_fails) ==
    IF req.rec_type \in GoalTypes THEN
        CreateGoal(o, coll, settings_coll, goals_coll, user_id, req, tx_fails, write_fails)
    ELSE IF req.rec_type \in ActionTypes THEN
        LogAction(o, settings_coll, goals_coll, user_id, req, write_fails)
    ELSE
        Outcome(o, settings_coll, goals_coll, "none", FALSE,
                "Tipo de recomendacion no soportado.")

apply_recommendation(o, coll, settings_coll, goals_coll, user_id, req, tx_fails, write_fails) ==
    IF ~req.confirm THEN
        Outcome(o, settings_coll, goals_coll, "none", FALSE,
                "Accion no confirmada por el usuario.")
    ELSE IF req.rec_type \in GoalTypes THEN
        CreateGoal(o, coll, settings_coll, goals_coll, user_id, req, tx_fails, write_fails)
    ELSE IF req.rec_type \in ActionTypes THEN
        LogAction(o, settings_coll, goals_coll, user_id, req, write_fails)
    ELSE
        Outcome(o, settings_coll, goals_coll, "none", FALSE,
                "Tipo de recomendacion no soportado.")

(***************************************************************************)
(* State.                                                                   *)
(***************************************************************************)
NoCall == [op |-> "none", user_id |-> "", tx_fails |-> FALSE, settings_fails |-> FALSE,
           write_fails |-> FALSE, request |-> Request("", FALSE, Null, FALSE),
           wrote |-> "none"]

NoResult == [raised |-> FALSE, recs |-> <<>>, success |-> FALSE, detail |-> ""]

NoResponse == [status |-> 0, success |-> FALSE, detail |-> NoResult, recommendations |-> <<>>]

\* the objects an instance is built from
WiringArgs ==
    {[kind |-> "txops", user_settings |-> FALSE, goals |-> FALSE, database |-> FALSE,
      settings_arg |-> FALSE],
     [kind |-> "txops", user_settings |-> TRUE, goals |-> TRUE, database |-> FALSE,
      settings_arg |-> FALSE],
     [kind |-> "db", user_settings |-> TRUE, goals |-> TRUE, database |-> FALSE,
      settings_arg |-> FALSE],
     [kind |-> "db", user_settings |-> TRUE, goals |-> FALSE, database |-> FALSE,
      settings_arg |-> FALSE],
     [kind |-> "db", user_settings |-> TRUE, goals |-> FALSE, database |-> TRUE,
      settings_arg |-> FALSE],
     [kind |-> "coll", user_settings |-> FALSE, goals |-> FALSE, database |-> FALSE,
      settings_arg |-> TRUE],
     [kind |-> "coll", user_settings |-> FALSE, goals |-> FALSE, database |-> FALSE,
      settings_arg |-> FALSE],
     [kind |-> "none", user_settings |-> FALSE, goals |-> FALSE, database |-> FALSE,
      settings_arg |-> FALSE]}

\* the instances the generation runs use: over a TransactionOperations, over a
\* database object, and over nothing
GenWiring ==
    {arg \in WiringArgs : \/ arg.kind = "txops" /\ arg.user_settings
                          \/ arg.kind = "db" /\ arg.goals
                          \/ arg.kind = "none"}

\* transaction documents the generation runs draw their lists from
GenDocs ==
    {Doc("u1", Str("Ingreso"), Num(100000), Null, Null, Str("Salario")),
     Doc("u1", Str("Gasto"), Num(96000), Str("Arriendo"), Null, Null),
     Doc("u1", Str("gasto"), Num(15000), Num(1), Str(" Netflix "), Null),
     Doc("u1", Str("EXPENSE"), Str("20,000"), Str("1"), Null, Str("NETFLIX")),
     NoneDoc("u1"),
     Doc("u2", Num(7), Num(5000), Str("Ocio"), Null, Null)}

GenSettings ==
    {Absent,
     SettingsDoc(Null, Num(50000)),
     SettingsDoc(Num(5000), Num(0)),
     SettingsDoc(Num(5000), Str("abc"))}

SeqsUpTo(S, n) == UNION {[1..k -> S] : k \in 0..n}

InitGen ==
    /\ transactions \in SeqsUpTo(GenDocs, MaxTx)
    /\ \E sd \in GenSettings :
          user_settings = [u \in Users |-> IF u = "u1" THEN sd ELSE Absent]
    /\ goals = <<>>
    /\ \E arg \in GenWiring : ops = Construct(arg)
    /\ call = NoCall
    /\ result = NoResult
    /\ response = NoResponse
    /\ applied = [u \in Users |-> 0]

\* variant: a suggested goal is stored as soon as it is generated
GenerateRecommendationsStoring(u, tx_fails, settings_fails) ==
    /\ call' = [NoCall EXCEPT !.op = "generate", !.user_id = u,
                              !.tx_fails = tx_fails, !.settings_fails = settings_fails]
    /\ LET r == generate_recommendations(ops, transactions, user_settings, u,
                                         tx_fails, settings_fails)
       IN  /\ result' = [NoResult EXCEPT !.raised = r.raised, !.recs = r.recs]
           /\ goals' = IF \E i \in 1..Len(r.recs) : r.recs[i].type = "suggest_goal"
                       THEN InsertGoal(goals, GoalDoc(u, Str("Ahorro sugerido"), 0))
                       ELSE goals
    /\ UNCHANGED <<transactions, user_settings, ops, response, applied>>

\* a call of RecommendationOperations.generate_recommendations(user_id)
GenerateRecommendations(u, tx_fails, settings_fails) ==
    /\ call' = [NoCall EXCEPT !.op = "generate", !.user_id = u,
                              !.tx_fails = tx_fails, !.settings_fails = settings_fails]
    /\ LET r == generate_recommendations(ops, transactions, user_settings, u,
                                         tx_fails, settings_fails)
       IN  result' = [NoResult EXCEPT !.raised = r.raised, !.recs = r.recs]
    /\ UNCHANGED <<transactions, user_settings, goals, ops, response, applied>>

NextGen ==
    \E u \in Users, tx_fails \in BOOLEAN, settings_fails \in BOOLEAN :
        GenerateRecommendations(u, tx_fails, settings_fails)

SpecGen == InitGen /\ [][NextGen]_vars

(***************************************************************************)
(* The rules (SpecRules): generation runs over histories built for the      *)
(* rules' thresholds.  Three families of stores: short lists over RuleDocs, *)
(* fixed lists under every preference document of PrefSettings, one         *)
(* expense per category for up to MaxCats categories, and up to MaxSmall    *)
(* expenses around the small-expense threshold.                             *)
(***************************************************************************)
RuleDocs ==
    {Doc("u1", Str("Ingreso"), Num(100000), Null, Null, Str("Salario")),
     Doc("u1", Str("Gasto"), Num(96000), Str("Arriendo"), Null, Null),
     Doc("u1", Str("Gasto"), Num(95000), Str("Arriendo"), Null, Null),
     Doc("u1", Str("Gasto"), Num(120000), Str("Arriendo"), Null, Null),
     Doc("u1", Str("gasto"), Num(15000), Num(1), Str(" Netflix "), Null),
     Doc("u1", Str("EXPENSE"), Str("20,000"), Str("1"), Null, Str("NETFLIX")),
     Doc("u1", Str("transfer"), Num(5000), Str("Ocio"), Str("Netflix"), Null)}

PrefLists ==
    {<<>>,
     <<Doc("u1", Str("Ingreso"), Num(100000), Null, Null, Str("Salario"))>>,
     <<Doc("u1", Str("Ingreso"), Num(100000), Null, Null, Str("Salario")),
       Doc("u1", Str("Gasto"), Num(96000), Str("Arriendo"), Null, Null)>>,
     <<Doc("u1", Str("Gasto"), Num(120000), Str("Arriendo"), Null, Null)>>,
     <<Doc("u2", Num(7), Num(5000), Str("Ocio"), Null, Null),
       Doc("u1", Str("Ingreso"), Num(100000), Null, Null, Str("Salario"))>>}

PrefSettings ==
    {SettingsDoc(meta, limite) :
        meta \in {Null, Num(0), Num(5000)},
        limite \in {Null, Num(0), Num(100000), Str("5000"), Str("abc")}}

CatNames == <<"c1", "c2", "c3", "c4", "c5", "c6", "c7", "c8">>

CatAmounts == {10000, 15000, 30000}

CatDoc(i, amt) == Doc("u1", Str("gasto"), Num(amt), Str(CatNames[i]), Null, Null)

CatLists ==
    UNION {{[i \in 1..k |-> CatDoc(i, f[i])] : f \in [1..k -> CatAmounts]} : k \in 0..MaxCats}

\* histories for the small-expense rule: an income (or none) and up to MaxSmall
\* expenses at, on and above the small-expense threshold
SmallIncomes == {0, 100000, 450000}

SmallAmounts == {15000, 20000, 20001}

SmallLists ==
    UNION {{(IF income = 0 THEN <<>>
             ELSE <<Doc("u1", Str("Ingreso"), Num(income), Null, Null, Null)>>)
            \o [i \in 1..k |-> Doc("u1", Str("gasto"), Num(f[i]), Str("Varios"), Null, Null)] :
              income \in SmallIncomes, f \in [1..k -> SmallAmounts]} : k \in 0..MaxSmall}

InitRules ==
    /\ \/ /\ transactions \in SeqsUpTo(RuleDocs, MaxTx)
          /\ user_settings = [u \in Users |-> Absent]
       \/ /\ transactions \in PrefLists
          /\ \E sd \in PrefSettings :
                user_settings = [u \in Users |-> IF u = "u1" THEN sd ELSE Absent]
       \/ /\ transactions \in CatLists \union SmallLists
          /\ user_settings = [u \in Users |-> Absent]
    /\ goals = <<>>
    /\ \E arg \in GenWiring : ops = Construct(arg)
    /\ call = NoCall
    /\ result = NoResult
    /\ response = NoResponse
    /\ applied = [u \in Users |-> 0]

SpecRules == InitRules /\ [][NextGen]_vars

(***************************************************************************)
(* The apply flow (SpecApply): calls of apply_recommendation on one         *)
(* instance, over stores that keep what earlier calls wrote.                *)
(***************************************************************************)
ApplyStores ==
    {<<Doc("u1", Str("Ingreso"), Num(150000), Null, Null, Str("Salario")),
       Doc("u1", Str("income"), Str("50000"), Null, Null, Null),
       Doc("u1", Str("Gasto"), Num(96000), Str("Arriendo"), Null, Null)>>,
     <<Doc("u1", Str("deposit"), Num(25), Null, Null, Null),
       Doc("u2", Num(7), Num(5000), Null, Null, Null)>>}

ApplyRequests ==
    {Request("suggest_goal", FALSE, Null, TRUE),
     Request("create_goal", TRUE, Num(30000), TRUE),
     Request("goal_suggestion", TRUE, Str("abc"), TRUE),
     Request("suggest_goal", FALSE, Null, FALSE),
     Request("reduce_category", FALSE, Null, TRUE),
     Request("many_small_expenses", TRUE, Num(30000), FALSE),
     Request("healthy_balance", FALSE, Null, TRUE)}

\* what the stores do during one call: answer, fail the read, or fail the write
Faults == {"none", "read", "write"}

RECURSIVE SumOver(_, _)
SumOver(f, S) ==
    IF S = {} THEN 0
    ELSE LET x == CHOOSE y \in S : TRUE IN f[x] + SumOver(f, S \ {x})

\* documents the apply flow has added to the stores
Written(settings_coll, goals_coll) ==
    Len(goals_coll)
    + SumOver([u \in Users |-> Len(settings_coll[u].goals)
                               + Len(settings_coll[u].recommendation_actions)], Users)

InitApply ==
    /\ transactions \in ApplyStores
    /\ user_settings = [u \in Users |->
                          IF u = "u1" THEN SettingsDoc(Null, Num(50000)) ELSE Absent]
    /\ goals = <<>>
    /\ \E arg \in WiringArgs : ops = Construct(arg)
    /\ call = NoCall
    /\ result = NoResult
    /\ response = NoResponse
    /\ applied = [u \in Users |-> 0]

\* a call of RecommendationOperations.apply_recommendation(user_id, request)
ApplyRecommendation(u, req, tx_fails, write_fails) ==
    LET out == apply_recommendation(ops, transactions, user_settings, goals, u, req,
                                    tx_fails, write_fails)
    IN  /\ Written(out.user_settings, out.goals) <= MaxApply
        /\ ops' = out.ops
        /\ user_settings' = out.user_settings
        /\ goals' = out.goals
        /\ call' = [NoCall EXCEPT !.op = "apply", !.user_id = u, !.tx_fails = tx_fails,
                                  !.write_fails = write_fails, !.request = req,
                                  !.wrote = out.wrote]
        /\ result' = [NoResult EXCEPT !.success = out.success, !.detail = out.detail]
        /\ applied' = IF req.confirm /\ req.rec_type \in GoalTypes /\ out.success
                      THEN [applied EXCEPT ![u] = @ + 1]
                      ELSE applied
        /\ UNCHANGED <<transactions, response>>

NextApply ==
    \E u \in Users, req \in ApplyRequests, fault \in Faults :
        ApplyRecommendation(u, req, fault = "read", fault = "write")

SpecApply == InitApply /\ [][NextApply]_vars

(***************************************************************************)
(* The HTTP endpoint POST /recommendations/apply (SpecApi).  It builds a    *)
(* TransactionOperations over db.transactions and an instance over it, or,  *)
(* when that fails, an instance over the database object itself.            *)
(* tx_attrs: what the TransactionOperations exposes as user_settings/goals. *)
(***************************************************************************)
RouterWiring(tx_ops_built, tx_attrs) ==
    IF tx_ops_built
    THEN [kind |-> "txops", user_settings |-> tx_attrs, goals |-> tx_attrs,
          database |-> FALSE, settings_arg |-> FALSE]
    ELSE [kind |-> "db", user_settings |-> TRUE, goals |-> TRUE,
          database |-> TRUE, settings_arg |-> FALSE]

\* the request bodies sent to the endpoint
ApiRequests ==
    {Request("suggest_goal", FALSE, Null, TRUE),
     Request("suggest_goal", FALSE, Null, FALSE),
     Request("reduce_category", FALSE, Null, TRUE),
     Request("healthy_balance", FALSE, Null, TRUE)}

\* current_user: a user id, or "" when none can be extracted (HTTP 401)
PostApply(current_user, req, fault, tx_ops_built, tx_attrs) ==
    IF current_user = "" THEN
        /\ call' = [NoCall EXCEPT !.op = "post_apply", !.request = req]
        /\ response' = [NoResponse EXCEPT !.status = 401]
        /\ UNCHANGED <<transactions, user_settings, goals, ops, result, applied>>
    ELSE
        LET o == Construct(RouterWiring(tx_ops_built, tx_attrs))
            out == apply_recommendation(o, transactions, user_settings, goals,
                                        current_user, req, fault = "read", fault = "write")
        IN  /\ Written(out.user_settings, out.goals) <= MaxApply
            /\ ops' = out.ops
            /\ user_settings' = out.user_settings
            /\ goals' = out.goals
            /\ call' = [NoCall EXCEPT !.op = "post_apply", !.user_id = current_user,
                                      !.tx_fails = (fault = "read"),
                                      !.write_fails = (fault = "write"),
                                      !.request = req, !.wrote = out.wrote]
            /\ result' = [NoResult EXCEPT !.success = out.success, !.detail = out.detail]
            \* return {"success": True, "detail": result}
            /\ response' = [NoResponse EXCEPT !.status = 200, !.success = TRUE,
                                              !.detail = result']
            /\ applied' = IF req.confirm /\ req.rec_type \in GoalTypes /\ out.success
                          THEN [applied EXCEPT ![current_user] = @ + 1]
                          ELSE applied
            /\ UNCHANGED transactions

NextApi ==
    \E current_user \in Users \union {""}, req \in ApiRequests, fault \in Faults,
       tx_ops_built \in BOOLEAN, tx_attrs \in BOOLEAN :
        PostApply(current_user, req, fault, tx_ops_built, tx_attrs)

\* no instance exists between requests: each request builds its own
InitApi ==
    /\ transactions \in ApplyStores
    /\ user_settings = [u \in Users |->
                          IF u = "u1" THEN SettingsDoc(Null, Num(50000)) ELSE Absent]
    /\ goals = <<>>
    /\ ops = Construct([kind |-> "none", user_settings |-> FALSE, goals |-> FALSE,
                        database |-> FALSE, settings_arg |-> FALSE])
    /\ call = NoCall
    /\ result = NoResult
    /\ response = NoResponse
    /\ applied = [u \in Users |-> 0]

SpecApi == InitApi /\ [][NextApi]_vars

(***************************************************************************)
(* The HTTP endpoint GET /recommendations/ (SpecGet).  It builds its        *)
(* instance as POST /apply does, calls generate_recommendations, cuts each  *)
(* title to 80 characters, sorts by score and returns the first 20 entries. *)
(* A title is rendered as its text followed by the value put into it.       *)
(***************************************************************************)
TitleLimit == 80             \* raw.get("title", ...)[:80]
MaxRecommendations == 20     \* formatted_recs[:20]

Render(title) == title.text \o title.arg

\* s[:n]
Truncate(s, n) == IF Len(s) <= n THEN s ELSE SubSeq(s, 1, n)

\* _normalize_recommendation_item on a dict, and the entry built from it
NormalizeItem(r) == [r EXCEPT !.title = Truncate(Render(r.title), TitleLimit)]

\* the entries used when the engine returns an empty list
DefaultRecs ==
    <<[Rec("no_data", "No hay transacciones registradas", "",
           "Agrega ingresos o gastos", <<>>, 10, Str("Registrar transacciones"))
         EXCEPT !.title = "No hay transacciones registradas"],
      [Rec("suggest_goal", "Crea una meta de ahorro", "",
           "Una buena practica es ahorrar el 10%", <<>>, 5, Str("Crear meta"))
         EXCEPT !.title = "Crea una meta de ahorro"]>>

\* formatted_recs.sort(key=score or 0, reverse=True) when some score is set (every
\* entry carries a number), then formatted_recs[:20]
FormatRecommendations(recs_raw) ==
    LET formatted == [i \in 1..Len(recs_raw) |-> NormalizeItem(recs_raw[i])]
        shown == IF Len(recs_raw) = 0 THEN DefaultRecs ELSE formatted
    IN  FirstN(SortByScore(shown, Len(shown)), MaxRecommendations)

\* histories behind the endpoint: ManyMerchants merchants of three charges each
\* (more than 20 candidates), two merchants whose names differ after the 52nd
\* character, a tie of two rules at 0.9, an empty one and one that cannot be read
ManyMerchants == 11

MerchantNames ==
    <<"m01", "m02", "m03", "m04", "m05", "m06", "m07", "m08", "m09", "m10",
      "m11", "m12", "m13", "m14", "m15", "m16", "m17", "m18", "m19", "m20">>

\* the i-th charge: merchants take turns, each under one of five categories
Charge(i) ==
    LET m == ((i - 1) % ManyMerchants) + 1
    IN  Doc("u1", Str("gasto"), Num(3000), Str(CatNames[((m - 1) % 5) + 1]),
            Str(MerchantNames[m]), Null)

ManyMerchantsList ==
    <<Doc("u1", Str("Ingreso"), Num(100000), Null, Null, Null)>>
    \o [i \in 1..(3 * ManyMerchants) |-> Charge(i)]

LongNameA == "pago mensual de la suscripcion a la plataforma de video plan familiar"

LongNameB == "pago mensual de la suscripcion a la plataforma de video plan individual"

LongNamesList ==
    [i \in 1..6 |-> Doc("u1", Str("gasto"), Num(15000), Str("Suscripciones"), Null,
                        Str(IF i % 2 = 1 THEN LongNameA ELSE LongNameB))]

GetStores ==
    {ManyMerchantsList,
     LongNamesList,
     <<Doc("u1", Str("Ingreso"), Num(100000), Null, Null, Str("Salario")),
       Doc("u1", Str("Gasto"), Num(96000), Str("Arriendo"), Null, Null)>>,
     <<>>,
     <<Doc("u1", Num(7), Num(5000), Str("Ocio"), Null, Null)>>}

\* current_user: a user id, or "" when none can be extracted (HTTP 401); an
\* exception of the engine is answered with HTTP 500
GetRecommendations(current_user, tx_fails, settings_fails, tx_ops_built, tx_attrs) ==
    IF current_user = "" THEN
        /\ call' = [NoCall EXCEPT !.op = "get"]
        /\ response' = [NoResponse EXCEPT !.status = 401]
        /\ UNCHANGED <<transactions, user_settings, goals, ops, result, applied>>
    ELSE
        LET o == Construct(RouterWiring(tx_ops_built, tx_attrs))
            r == generate_recommendations(o, transactions, user_settings, current_user,
                                          tx_fails, settings_fails)
        IN  /\ ops' = o
            /\ call' = [NoCall EXCEPT !.op = "get", !.user_id = current_user,
                                      !.tx_fails = tx_fails,
                                      !.settings_fails = settings_fails]
            /\ result' = [NoResult EXCEPT !.raised = r.raised, !.recs = r.recs]
            /\ response' = IF r.raised
                           THEN [NoResponse EXCEPT !.status = 500]
                           ELSE [NoResponse EXCEPT
                                   !.status = 200,
                                   !.recommendations = FormatRecommendations(r.recs)]
            /\ UNCHANGED <<transactions, user_settings, goals, applied>>

NextGet ==
    \E current_user \in Users \union {""}, tx_fails \in BOOLEAN, settings_fails \in BOOLEAN,
       tx_ops_built \in BOOLEAN, tx_attrs \in BOOLEAN :
        GetRecommendations(current_user, tx_fails, settings_fails, tx_ops_built, tx_attrs)

InitGet ==
    /\ transactions \in GetStores
    /\ \E sd \in GenSettings :
          user_settings = [u \in Users |-> IF u = "u1" THEN sd ELSE Absent]
    /\ goals = <<>>
    /\ ops = Construct([kind |-> "none", user_settings |-> FALSE, goals |-> FALSE,
                        database |-> FALSE, settings_arg |-> FALSE])
    /\ call = NoCall
    /\ result = NoResult
    /\ response = NoResponse
    /\ applied = [u \in Users |-> 0]

SpecGet == InitGet /\ [][NextGet]_vars

(***************************************************************************)
(* Claims about generate_recommendations (SpecGen).                         *)
(***************************************************************************)
Generated == call.op = "generate" /\ ~result.raised

\* the list fetch_user_data handed to the last call
Fetched == FetchTransactions(ops, transactions, call.user_id, call.tx_fails)

HasType(recs, type) == \E i \in 1..Len(recs) : recs[i].type = type

\* C1: the list generate_recommendations returns is ordered by non-increasing score
\* and holds no two entries with the same (type, title)
C1_SortedNoDuplicates ==
    Generated =>
        /\ \A i, j \in 1..Len(result.recs) :
              i < j => result.recs[i].score >= result.recs[j].score
        /\ \A i, j \in 1..Len(result.recs) :
              i # j => RecKey(result.recs[i]) # RecKey(result.recs[j])

\* two categories (the number 1 and the text "1") gave the same reduce_category
\* title, and the returned list holds it once
C1_Witness ==
    /\ Generated
    /\ Len(Candidates(Fetched, Aggregate(Fetched),
                      FetchSettings(ops, user_settings, call.user_id, call.settings_fails)))
          > Len(result.recs)
    /\ \E i \in 1..Len(result.recs) :
          result.recs[i].type = "reduce_category" /\ result.recs[i].title.arg = "1"

\* C2: with an empty fetched list the first entry returned is the no_data
\* candidate, with score 1.0
C2_NoDataFirst ==
    (Generated /\ Fetched = <<>>) =>
        /\ Len(result.recs) >= 1
        /\ result.recs[1].type = "no_data"
        /\ result.recs[1].score = 100

\* an empty list with a spending limit configured: no_data ahead of within_limit
C2_Witness ==
    /\ Generated
    /\ Fetched = <<>>
    /\ ~call.tx_fails
    /\ result.recs[1].type = "no_data"
    /\ HasType(result.recs, "within_limit")

\* C9: (original claim) a failed transaction read counts as an empty list, a
\* failed or empty preferences read as preferences with nothing set, and
\* generate_recommendations still returns a list, holding no_data when the
\* transaction read failed
C9_ReadFailureDegrades ==
    (call.op = "generate" /\ (call.tx_fails \/ call.settings_fails)) =>
        /\ ~result.raised
        /\ call.tx_fails => HasType(result.recs, "no_data")
        /\ call.settings_fails =>
              /\ ~HasType(result.recs, "over_limit")
              /\ ~HasType(result.recs, "within_limit")
              /\ result.recs = Rank(Candidates(Fetched, Aggregate(Fetched), DefaultSettings))

\* C10: (original claim) generate_recommendations never raises, whatever the
\* records hold
C10_NeverRaises == call.op = "generate" => ~result.raised

\* C11: a call of generate_recommendations writes to no store (transactions,
\* preferences, goals), and a further call for the same user over the stores it
\* left returns the identical ordered list
C11_ReadOnlyIdempotent ==
    [][call'.op = "generate" =>
         /\ transactions' = transactions
         /\ user_settings' = user_settings
         /\ goals' = goals
         /\ LET again == generate_recommendations(ops', transactions', user_settings',
                                                  call'.user_id, call'.tx_fails,
                                                  call'.settings_fails)
            IN  again.raised = result'.raised /\ again.recs = result'.recs]_vars

\* a goal was suggested over a history of three records and nothing was stored
C11_Witness ==
    /\ Generated
    /\ Len(Fetched) = 3
    /\ HasType(result.recs, "suggest_goal")
    /\ goals = <<>>
    /\ user_settings[call.user_id].goals = <<>>

(***************************************************************************)
(* Claims about the rules (SpecRules).  The signals are those of the list   *)
(* the last call fetched; amounts are whole units, a percentage is held in  *)
(* tenths of a percent.                                                     *)
(***************************************************************************)
Signals == Aggregate(Fetched)

Income == Signals.ingresos

Expense == Signals.gastos

Balance == Income - Expense

Preferences == FetchSettings(ops, user_settings, call.user_id, call.settings_fails)

\* positions of the returned list holding a candidate of the type
Of(type) == {i \in 1..Len(result.recs) : result.recs[i].type = type}

HasScored(type, score) ==
    \E i \in Of(type) : result.recs[i].score = score

NoIncomeCase == Income = 0 /\ Expense > 0

\* C12: (original claim) with a negative balance the list holds negative_balance
\* at score 0.98 and neither healthy_balance nor low_saving_margin
C12_NegativeBalance ==
    (Generated /\ Balance < 0) =>
        /\ HasScored("negative_balance", 98)
        /\ Of("healthy_balance") = {}
        /\ Of("low_saving_margin") = {}

\* C12: (amended) the same, unless income is exactly 0 with expense above 0: then
\* the list holds no_income at score 1.0 and none of negative_balance,
\* healthy_balance, low_saving_margin
C12_NegativeBalanceUnlessNoIncome ==
    Generated =>
        /\ (Balance < 0 /\ ~NoIncomeCase) =>
              /\ HasScored("negative_balance", 98)
              /\ Of("healthy_balance") = {}
              /\ Of("low_saving_margin") = {}
        /\ NoIncomeCase =>
              /\ HasScored("no_income", 100)
              /\ Of("negative_balance") = {}
              /\ Of("healthy_balance") = {}
              /\ Of("low_saving_margin") = {}

\* income 100000, expense 120000
C12_Witness ==
    /\ Generated
    /\ Income = 100000
    /\ Expense = 120000
    /\ HasScored("negative_balance", 98)

\* C13: with income > 0, balance >= 0 and balance/income < 0.05 the list holds
\* low_saving_margin at score 0.9 whose detail carries balance/income*100 to one
\* decimal; with balance/income at 0.05 or more it holds no low_saving_margin
C13_LowSavingMargin ==
    (Generated /\ Income > 0) =>
        /\ (Balance >= 0 /\ 100 * Balance < 5 * Income) =>
              \E i \in Of("low_saving_margin") :
                 LET r == result.recs[i]
                     tenths == r.detail.args[1]
                     gap == tenths * Income - 1000 * Balance
                 IN  /\ r.score = 90
                     /\ Len(r.detail.args) = 1
                     /\ 2 * gap <= Income
                     /\ 2 * gap >= -Income
        /\ 100 * Balance >= 5 * Income => Of("low_saving_margin") = {}

\* income 100000, expense 96000: 4.0%
C13_Witness ==
    /\ Generated
    /\ Income = 100000
    /\ Expense = 96000
    /\ \E i \in Of("low_saving_margin") : result.recs[i].detail.args = <<40>>

\* the merchant key of a record: the merchant, else the description, trimmed and
\* lower-cased ("" when there is neither)
MerchantKey(t) ==
    LET v == Or(t.merchant, Or(t.description, Str("")))
    IN  Lower(Strip(v.s))

\* positions of the expense records of a list that carry the key
Charges(txs, key) ==
    {i \in 1..Len(txs) : is_expense(normalize_transaction(txs[i]))
                         /\ MerchantKey(normalize_transaction(txs[i])) = key}

RECURSIVE SumAmounts(_, _)
SumAmounts(txs, S) ==
    IF S = {} THEN 0
    ELSE LET i == CHOOSE j \in S : TRUE
         IN  parse_amount(normalize_transaction(txs[i])) + SumAmounts(txs, S \ {i})

\* the list with the records at i and i + 1 exchanged
Swap(txs, i) == [j \in 1..Len(txs) |-> IF j = i THEN txs[i + 1]
                                       ELSE IF j = i + 1 THEN txs[i] ELSE txs[j]]

\* the possible_subscription candidates generation returns for a list
SubscriptionsOf(txs) ==
    LET recs == Rank(Candidates(txs, Aggregate(txs), Preferences))
    IN  {recs[i] : i \in {j \in 1..Len(recs) : recs[j].type = "possible_subscription"}}

TypeLabel(t) == IF t.type.k = "str" THEN Lower(t.type.s) ELSE ""

\* C15: (original claim) no record is classified as both income and expense; a
\* record with an income label adds its amount to total income only, one with an
\* expense label to the expense aggregates only, and a record of any other type
\* changes no aggregate
C15_ClassificationExclusive ==
    call.op = "generate" =>
        \A i \in 1..Len(Fetched) :
           LET t == normalize_transaction(Fetched[i])
               after == AggregateOne(EmptySignals, Fetched[i])
           IN  /\ ~(is_income(t) /\ is_expense(t))
               /\ TypeLabel(t) \in IncomeLabels =>
                     after = [EmptySignals EXCEPT !.ingresos = parse_amount(t)]
               /\ TypeLabel(t) \in ExpenseLabels =>
                     /\ ~after.raised
                     /\ after.ingresos = 0
                     /\ after.gastos = parse_amount(t)
               /\ TypeLabel(t) \notin (IncomeLabels \union ExpenseLabels) =>
                     after = EmptySignals

\* C16: (original claim) with meta_ahorro set the list holds exactly one of
\* miss_saving_goal (score 0.85, balance < meta_ahorro) and achieved_saving_goal
\* (score 0.4, otherwise); with meta_ahorro unset it holds neither
C16_SavingGoalPair ==
    Generated =>
        IF Preferences.meta_ahorro.k = "num"
        THEN IF Balance < Preferences.meta_ahorro.n
             THEN HasScored("miss_saving_goal", 85) /\ Of("achieved_saving_goal") = {}
             ELSE HasScored("achieved_saving_goal", 40) /\ Of("miss_saving_goal") = {}
        ELSE Of("miss_saving_goal") = {} /\ Of("achieved_saving_goal") = {}

BalanceTypes == {"no_income", "negative_balance", "low_saving_margin", "healthy_balance"}

\* C17: the list holds exactly one candidate of a balance type; it is
\* healthy_balance, at score 0.2, exactly when none of the other balance
\* conditions holds (income and expense both zero included)
C17_OneBalanceCandidate ==
    Generated =>
        /\ Cardinality({i \in 1..Len(result.recs) : result.recs[i].type \in BalanceTypes}) = 1
        /\ Of("healthy_balance") # {} <=>
              /\ ~NoIncomeCase
              /\ ~(Balance < 0)
              /\ ~(Income > 0 /\ 100 * Balance < 5 * Income)
        /\ \A i \in Of("healthy_balance") : result.recs[i].score = 20

\* a history without income or expense (one record of another type): healthy_balance
C17_Witness ==
    /\ Generated
    /\ Fetched # <<>>
    /\ Income = 0
    /\ Expense = 0
    /\ HasScored("healthy_balance", 20)

\* C18: (original claim) with limite_gastos set to a number the list holds exactly
\* one of over_limit (score 0.92, expense > limite_gastos) and within_limit (score
\* 0.25 to 0.3, otherwise); with limite_gastos unset it holds neither
C18_LimitPair ==
    Generated =>
        /\ Preferences.limite_gastos.k = "num" =>
              IF Expense > Preferences.limite_gastos.n
              THEN HasScored("over_limit", 92) /\ Cardinality(Of("over_limit")) = 1
                   /\ Of("within_limit") = {}
              ELSE /\ Cardinality(Of("within_limit")) = 1
                   /\ \A i \in Of("within_limit") :
                         result.recs[i].score >= 25 /\ result.recs[i].score <= 30
                   /\ Of("over_limit") = {}
        /\ Preferences.limite_gastos.k = "null" =>
              Of("over_limit") = {} /\ Of("within_limit") = {}

\* C19: (original claim) the list holds suggest_goal, at score 0.7 with the amount
\* round(10% of income), if and only if meta_ahorro is unset and income > 0
C19_SuggestGoalIff ==
    Generated =>
        /\ Of("suggest_goal") # {} <=> (Preferences.meta_ahorro.k = "null" /\ Income > 0)
        /\ \A i \in Of("suggest_goal") :
              /\ result.recs[i].score = 70
              /\ result.recs[i].detail.args = <<RoundHalfEven(Income, 10)>>

\* the tier of a category total within a total expense
Tier(total, total_expense) ==
    IF 100 * total >= 30 * total_expense THEN "reduce_category"
    ELSE IF 100 * total >= 15 * total_expense THEN "monitor_category"
    ELSE "none"

\* the sets of categories that are "the 5 with the largest totals" (all of them
\* when there are fewer; more than one set when totals tie at the fifth place)
TopSets(cats) ==
    LET n == Len(cats)
        size == IF n < TopCategories THEN n ELSE TopCategories
    IN  {S \in SUBSET (1..n) :
            /\ Cardinality(S) = size
            /\ \A i \in S, j \in (1..n) \ S : cats[i].total >= cats[j].total}

Named(r) == <<r.type, r.title.arg>>

\* C20: the category rule produces, for the 5 categories with the largest totals
\* and for no other, one reduce_category candidate (score 0.95) per category with a
\* share >= 30%, one monitor_category candidate (score 0.6) per category with a
\* share in [15%, 30%), nothing for a share < 15%, never both for one category;
\* the returned list holds these candidates and no other of the two types
C20_TopFiveCategories ==
    Generated =>
        LET cats == Signals.by_category
            total_expense == SumTotals(cats, Len(cats))
            produced == CategoryRule(cats)
            names == [i \in 1..Len(produced) |-> Named(produced[i])]
            tiers == [j \in 1..Len(cats) |->
                        <<Tier(cats[j].total, total_expense), Format(cats[j].key)>>]
        IN  /\ \E S \in TopSets(cats) :
                  \A x \in {names[i] : i \in 1..Len(produced)} \union {tiers[j] : j \in S} :
                     x[1] # "none" =>
                        Cardinality({i \in 1..Len(produced) : names[i] = x})
                           = Cardinality({j \in S : tiers[j] = x})
            /\ \A i \in 1..Len(produced) :
                  /\ produced[i].type \in {"reduce_category", "monitor_category"}
                  /\ produced[i].score = IF produced[i].type = "reduce_category" THEN 95 ELSE 60
                  /\ \E k \in Of(produced[i].type) : result.recs[k].title = produced[i].title
            /\ \A k \in Of("reduce_category") \union Of("monitor_category") :
                  \E i \in 1..Len(produced) :
                     names[i] = Named(result.recs[k])
                     /\ produced[i].score = result.recs[k].score

\* six categories of one sixth each: five monitor_category candidates, none for
\* the sixth although its share is above 15%
C20_Witness ==
    /\ Generated
    /\ Len(Signals.by_category) = 6
    /\ \A j \in 1..6 : Signals.by_category[j].total = 15000
    /\ Cardinality(Of("monitor_category")) = 5
    /\ \A k \in Of("monitor_category") :
          result.recs[k].title.arg # Format(Signals.by_category[6].key)

\* positions of the expense records of the fetched list at or under the threshold
SmallExpenses ==
    {i \in 1..Len(Fetched) :
        /\ is_expense(normalize_transaction(Fetched[i]))
        /\ parse_amount(normalize_transaction(Fetched[i])) <= SmallExpenseThreshold}

\* C21: the list holds many_small_expenses (score 0.8) if and only if income > 0,
\* at least 3 expense records have an amount <= 20000 and the sum of those is
\* strictly above 10% of income; an expense above the threshold counts in neither
C21_ManySmallExpenses ==
    Generated =>
        LET count == Cardinality(SmallExpenses)
            total == SumAmounts(Fetched, SmallExpenses)
        IN  /\ Of("many_small_expenses") # {} <=>
                  (Income > 0 /\ count >= 3 /\ 10 * total > Income)
            /\ \A i \in Of("many_small_expenses") :
                  /\ result.recs[i].score = 80
                  /\ result.recs[i].detail.args = <<count, total>>

\* income 100000, three expenses at or under 20000 and one of 20001 left out
C21_Witness ==
    /\ Generated
    /\ Income = 100000
    /\ Len(Fetched) = 5
    /\ \E i \in 1..Len(Fetched) : parse_amount(normalize_transaction(Fetched[i])) = 20001
    /\ \E i \in Of("many_small_expenses") : result.recs[i].detail.args[1] = 3

GenericTypes == {"daily_tracking", "automate_saving"}

\* C22: every list holds exactly one daily_tracking and exactly one
\* automate_saving candidate, each with a score between 0.04 and 0.1, and every
\* other candidate is placed ahead of both
C22_GenericTips ==
    Generated =>
        /\ Cardinality(Of("daily_tracking")) = 1
        /\ Cardinality(Of("automate_saving")) = 1
        /\ \A i \in Of("daily_tracking") \union Of("automate_saving") :
              /\ result.recs[i].score >= 4
              /\ result.recs[i].score <= 10
              /\ \A j \in 1..Len(result.recs) :
                    result.recs[j].type \notin GenericTypes =>
                       j < i /\ result.recs[j].score > result.recs[i].score

\* an empty history under a configured limit: within_limit (0.25), then the tips
C22_Witness ==
    /\ Generated
    /\ Fetched = <<>>
    /\ Of("within_limit") # {}
    /\ Len(result.recs) = Cardinality(Of("within_limit")) + 4
    /\ result.recs[Len(result.recs)].type = "automate_saving"

\* the (type, title, score) of the candidates generation returns for a list
CandidateSet(txs) ==
    LET recs == Rank(Candidates(txs, Aggregate(txs), Preferences))
    IN  {<<recs[i].type, recs[i].title, recs[i].score>> : i \in 1..Len(recs)}

\* C26: (original claim) the set of candidates (type, title, score) is the same
\* for every order of the same transactions, ties of category totals at the top-5
\* cut-off included
C26_OrderIndependent ==
    Generated =>
        \A i \in 1..(Len(Fetched) - 1) :
           CandidateSet(Swap(Fetched, i)) = CandidateSet(Fetched)

(***************************************************************************)
(* Claims about apply_recommendation (SpecApply, SpecApi).                  *)
(***************************************************************************)
Applied == call.op = "apply"

InVocabulary(req) == req.confirm /\ req.rec_type \in (GoalTypes \union ActionTypes)

GoalCall == Applied /\ call.request.confirm /\ call.request.rec_type \in GoalTypes

ActionCall == Applied /\ call.request.confirm /\ call.request.rec_type \in ActionTypes

\* the amount the request carries (None when metadata is None or has no amount)
GivenAmount == IF call.request.metadata.present THEN call.request.metadata.amount ELSE Null

\* a goals collection is at hand: held by the instance, or reachable through the
\* database of its transactions collection
GoalsAvailable == ops.goals_collection \/ (ops.transactions_collection /\ ops.database)

PrefsAvailable == ops.user_settings_collection

\* the user's goal documents, wherever the last call put them
UserGoals(u) == SelectSeq(goals, LAMBDA d : d.user_id = u) \o user_settings[u].goals

\* the goal document the last call persisted
LastGoal ==
    IF call.wrote = "goals" THEN goals[Len(goals)]
    ELSE user_settings[call.user_id].goals[Len(user_settings[call.user_id].goals)]

GoalPersistedWithoutAmount ==
    GoalCall /\ call.wrote \in {"goals", "settings_goals"} /\ GivenAmount.k = "null"

\* total income of the user as read by the last call
IncomeRead == IncomeOf(Fetched).total

\* C3: a store is written only by a confirmed request of a known rec_type; any
\* other request returns success=false, raises nothing and leaves the goals and
\* the preferences store as they were
C3_WritesOnlyConfirmedKnown ==
    [][call'.op = "apply" =>
         /\ (goals' # goals \/ user_settings' # user_settings) => InVocabulary(call'.request)
         /\ ~InVocabulary(call'.request) =>
               /\ ~result'.success
               /\ ~result'.raised
               /\ goals' = goals
               /\ user_settings' = user_settings]_vars

\* an unsupported confirmed request made after a goal had been stored
C3_Witness ==
    /\ Applied
    /\ call.request.confirm
    /\ call.request.rec_type = "healthy_balance"
    /\ ~result.success
    /\ Written(user_settings, goals) >= 1

\* C4: (original claim) a goal persisted for a request without amount has
\* target_amount = round(10% of the income read), for every history
C4_TenPercentOfIncome ==
    GoalPersistedWithoutAmount => LastGoal.target_amount = RoundHalfEven(IncomeRead, 10)

\* C4: (amended) target_amount = round(10% of the income read), ties to even,
\* when that income is positive, and 50000 when it is not
C4_TenPercentOrDefault ==
    GoalPersistedWithoutAmount =>
        LastGoal.target_amount =
            IF IncomeRead > 0 THEN RoundHalfEven(IncomeRead, 10) ELSE DefaultGoalAmount

\* income 200000 gives a goal of 20000
C4_Witness ==
    /\ GoalPersistedWithoutAmount
    /\ IncomeRead = 200000
    /\ LastGoal.target_amount = 20000

\* nothing in the way of the write: the amount is a number, the income could be
\* summed, the store took the write
GoalError ==
    \/ GivenAmount.k # "null" /\ ~FloatOf(GivenAmount).ok
    \/ GivenAmount.k = "null" /\ IncomeOf(Fetched).raised
    \/ call.write_fails /\ (GoalsAvailable \/ PrefsAvailable)

ThreeOutcomes ==
    /\ GoalsAvailable => call.wrote = "goals" /\ result.success
    /\ (~GoalsAvailable /\ PrefsAvailable) => call.wrote = "settings_goals" /\ result.success
    /\ (~GoalsAvailable /\ ~PrefsAvailable) => call.wrote = "none" /\ ~result.success

C7_GoalPerSuccessfulCall ==
    \A u \in Users : Len(UserGoals(u)) = applied[u]

\* the same confirmed request twice: two equal goal documents
C7_Witness ==
    /\ GoalCall
    /\ applied["u1"] = 2
    /\ Len(goals) = 2
    /\ goals[1] = goals[2]

\* C8: (original claim) whenever the apply endpoint applied nothing, its caller
\* receives success=false
C8_FailureReported ==
    (call.op = "post_apply" /\ response.status = 200 /\ call.wrote = "none")
        => ~response.success

\* the store operations of the last step, taken over the stores it started from
Kinds(tr, kind) == {i \in 1..Len(tr) : tr[i].kind = kind}

\* C24: a confirmed call issues reads only on the goal-creation path without an
\* amount, every read ahead of the write, at most one write; when the write raises
\* the call returns success=false with nothing written by a second attempt, and
\* the documents added to the stores are the one write that went through
C24_ReadWriteReturn ==
    [][(call'.op = "apply" /\ call'.request.confirm) =>
         LET tr == StoreCalls(ops, transactions, call'.user_id, call'.request,
                              call'.tx_fails, call'.write_fails)
             writes == Kinds(tr, "write")
             done == {i \in writes : tr[i].ok}
         IN  /\ Kinds(tr, "read") # {} =>
                   /\ call'.request.rec_type \in GoalTypes
                   /\ ~call'.request.metadata.present
                      \/ call'.request.metadata.amount.k = "null"
             /\ \A i \in Kinds(tr, "read"), j \in writes : i < j
             /\ Cardinality(writes) <= 1
             /\ \A j \in writes : j = Len(tr)
             /\ \A j \in writes : ~tr[j].ok => ~result'.success
             /\ result'.success <=> done # {}
             /\ Written(user_settings', goals') - Written(user_settings, goals)
                   = Cardinality(done)
             /\ done = {} => (goals' = goals /\ user_settings' = user_settings)]_vars

\* a goal request without amount: two reads, then the insert, which raised
C24_Witness ==
    /\ GoalCall
    /\ GivenAmount.k = "null"
    /\ call.write_fails
    /\ ~result.success
    /\ LET tr == StoreCalls(ops, transactions, call.user_id, call.request,
                            call.tx_fails, call.write_fails)
       IN  /\ Len(tr) = 3
           /\ tr[1].kind = "read" /\ tr[2].kind = "read"
           /\ tr[3] = StoreOp("goals.insert_one", "write", FALSE)

(***************************************************************************)
(* Claims about GET /recommendations/ (SpecGet).                            *)
(***************************************************************************)
Got == call.op = "get" /\ response.status = 200

\* where the rules put a candidate: its first position in the list they built
Produced(cands, r) == CHOOSE k \in 1..Len(cands) : cands[k] = r
                                                   /\ \A m \in 1..(k - 1) : cands[m] # r

\* C23: candidates of equal score are returned in the order the rules produced
\* them, and the endpoint returns the first min(20, n) entries of the engine's
\* list, in its order (each title cut to 80 characters)
C23_StableSortAndCap ==
    Got =>
        LET cands == Candidates(Fetched, Signals, Preferences)
            recs == result.recs
            shown == response.recommendations
        IN  /\ \A i, j \in 1..Len(recs) :
                  (i < j /\ recs[i].score = recs[j].score) =>
                     /\ \E k \in 1..Len(cands) : cands[k] = recs[i]
                     /\ \E k \in 1..Len(cands) : cands[k] = recs[j]
                     /\ Produced(cands, recs[i]) < Produced(cands, recs[j])
            /\ Len(shown) = IF Len(recs) < 20 THEN Len(recs) ELSE 20
            /\ \A k \in 1..Len(shown) :
                  /\ shown[k].type = recs[k].type
                  /\ shown[k].score = recs[k].score
                  /\ shown[k].detail = recs[k].detail
                  /\ shown[k].suggested_action = recs[k].suggested_action
                  /\ shown[k].title =
                        IF Len(Render(recs[k].title)) <= 80 THEN Render(recs[k].title)
                        ELSE SubSeq(Render(recs[k].title), 1, 80)

\* more than 20 candidates: low_saving_margin ahead of high_expense_ratio at 0.9,
\* then 11 subscriptions at 0.85 in the order of their first charge; 20 returned
C23_Witness ==
    /\ Got
    /\ Len(result.recs) > 20
    /\ Len(response.recommendations) = 20
    /\ response.recommendations[1].type = "low_saving_margin"
    /\ response.recommendations[2].type = "high_expense_ratio"
    /\ response.recommendations[3].title = "Revisa posible suscripcion: m01"
    /\ response.recommendations[13].title = "Revisa posible suscripcion: m11"

\* C25: (original claim) the list the endpoint returns holds no two entries with
\* the same (type, title)
C25_NoDuplicateAfterTruncation ==
    Got =>
        \A i, j \in 1..Len(response.recommendations) :
           i # j => <<response.recommendations[i].type, response.recommendations[i].title>>
                    # <<response.recommendations[j].type, response.recommendations[j].title>>

====
